---- MODULE Spec2Model ----
(***************************************************************************)
(* The shot generation pipeline of inu: process_story of                   *)
(* video_generator.py (hybrid T2V / I2V) and of bin/naive.py (Spec), and   *)
(* of bin/extend.py (SpecExtend), as state machines over the output        *)
(* directory, the story file, the remote generation operation and the      *)
(* local variables of process_story.                                       *)
(***************************************************************************)
EXTENDS Integers, Sequences, FiniteSets, TLC

(* ---------------------------------------------------------------- bounds *)
\* Shot ids of a story are drawn from 1..MaxShotId.
MaxShotId == 3
\* An operation reports "pending" to at most MaxPolls status checks.
MaxPolls == 1
\* The longest clip given to extract_last_frame, in tenths of a second.
MaxDuration == 30

(* ------------------------------------------------------ program constants *)
POLL_INTERVAL_SECONDS == 15
DELAY_BETWEEN_SHOTS_SECONDS == 5
MAX_RETRIES == 3
RETRY_BACKOFF_SECONDS == 60
MIN_VALID_BYTES == 1 * 1024 * 1024
\* FRAME_OFFSET_SECONDS = 1.0, in tenths of a second.
FRAME_OFFSET_SECONDS == 10

(* ----------------------------------------------------------------- values *)
\* end_shot = None
None == -1
NoFile == [size |-> -1, origin |-> "absent"]
NoFrame == [from |-> 0, file |-> NoFile]
NoErr == [kind |-> "none", marked |-> FALSE, size |-> -1]
\* previous_video = None
NoVideo == [of |-> 0, try |-> 0]

ShotIds == 1 .. MaxShotId
\* Paths {n}.mp4 the pipeline can look at: shot 1's predecessor is 0.mp4.
Paths == 0 .. MaxShotId
\* "none": the story entry has no mode key.
Modes == {"t2v", "i2v", "none"}

\* Byte lengths of a downloaded payload.
PayloadSizes == {0, 429, MIN_VALID_BYTES - 1, MIN_VALID_BYTES}
\* Byte lengths of files found in the output directory before the first run.
PreSizes == {MIN_VALID_BYTES - 1, 2 * MIN_VALID_BYTES}

File(n, o) == [size |-> n, origin |-> o]

(* ------------------------------------------------------------ pure helpers *)
\* "429" in str(n): the decimal digits of n contain 429.
RECURSIVE Has429(_)
Has429(n) == /\ n >= 429
             /\ \/ n % 1000 = 429
                \/ Has429(n \div 10)

\* sorted(story["shots"], key=lambda s: s["id"]): stable insertion by id.
RECURSIVE InsertById(_, _)
InsertById(sorted, s) ==
    IF sorted = <<>> THEN <<s>>
    ELSE IF Head(sorted).id <= s.id
         THEN <<Head(sorted)>> \o InsertById(Tail(sorted), s)
         ELSE <<s>> \o sorted

RECURSIVE SortFrom(_, _)
SortFrom(declared, acc) ==
    IF declared = <<>> THEN acc
    ELSE SortFrom(Tail(declared), InsertById(acc, Head(declared)))

\* Faulty variant: the declaration order is kept.
Unsorted(declared) == declared
SortById(declared) == SortFrom(declared, <<>>)

\* Faulty variant: start_shot is not applied.
UpToEnd(id, s, e) == e = None \/ id <= e
\* s["id"] >= start_shot and (end_shot is None or s["id"] <= end_shot)
InRange(id, s, e) == id >= s /\ (e = None \/ id <= e)

SelectShots(declared, s, e) ==
    LET all_shots == SortById(declared)
        Keep(x) == InRange(x.id, s, e)
    IN  SelectSeq(all_shots, Keep)

\* Faulty variants of the existence check: one that also validates the size,
\* one that looks at the previous shot's path.
ExistsValid(d, id) == d[id] # NoFile /\ d[id].size >= MIN_VALID_BYTES
ExistsPrev(d, id) == d[id - 1] # NoFile
\* out_path.exists()
PathExists(d, id) == d[id] # NoFile

\* Faulty variants of the size check: an off-by-one floor, and no check.
TooSmallInclusive(size) == size <= MIN_VALID_BYTES
NeverTooSmall(size) == FALSE
\* size < MIN_VALID_BYTES
TooSmall(size) == size < MIN_VALID_BYTES

\* "429" in error_msg or "RESOURCE_EXHAUSTED" in error_msg
IsRateLimited(err) == err.marked

\* Faulty variant: the rate-limit wait not scaled by the attempt number.
FlatBackoff(err, n) ==
    IF IsRateLimited(err) THEN <<RETRY_BACKOFF_SECONDS>>
    ELSE IF n < MAX_RETRIES THEN <<RETRY_BACKOFF_SECONDS>> ELSE <<>>
\* The sleeps of the except block for the attempt n that raised err.
BackoffSleeps(err, n) ==
    IF IsRateLimited(err) THEN <<RETRY_BACKOFF_SECONDS * n>>
    ELSE IF n < MAX_RETRIES THEN <<RETRY_BACKOFF_SECONDS>> ELSE <<>>

\* Faulty variant: range(1, MAX_RETRIES + 3).
TwoMoreAttempts(n) == n + 1 <= MAX_RETRIES + 2
\* Faulty variant: range(1, MAX_RETRIES + 2).
OneMoreAttempt(n) == n + 1 <= MAX_RETRIES + 1
\* for attempt in range(1, MAX_RETRIES + 1): is there an iteration after n?
HasNextAttempt(n) == n + 1 <= MAX_RETRIES

\* Faulty variant: a failed shot is passed over.
NeverHalts(ok, err) == FALSE
\* Faulty variant: a shot that failed for other reasons than a rate limit is
\* passed over.
HaltsOnRateLimitOnly(ok, err) == ~ok /\ IsRateLimited(err)
\* Faulty variant: the halt sits in the non-rate-limit branch only, as in
\* bin/extend.py.
HaltsOnlyOnError(ok, err) == ~ok /\ ~IsRateLimited(err)
\* if not success: sys.exit(1)
MustHalt(ok, err) == ~ok

\* The message of ValueError(f"Output too small ({size} bytes) ...")
TooSmallError(size) == [kind |-> "invalid", marked |-> Has429(size), size |-> size]
\* An exception raised by an SDK call; marked: its message holds 429 or
\* RESOURCE_EXHAUSTED.
ApiError(marked) == [kind |-> "api", marked |-> marked, size |-> -1]
\* RuntimeError(f"... (no response): {error}") / (no videos returned): {operation}
\* naive.py has no check for an empty video list: IndexError, a fixed message.
EmptyError(scr, novideos, marked) ==
    [kind |-> "empty", marked |-> IF scr = "naive" /\ novideos THEN FALSE ELSE marked,
     size |-> -1]

\* The reference images main passes on: the three REF_IMAGE_PATHS of
\* video_generator.py, the one --ref_image of naive.py.
RefImages(scr) == IF scr = "naive" THEN 1 ELSE Len(<<"pop.png", "pupa.png", "pupb.png">>)
\* naive.py: --ref_image is optional.
RefChoices(scr) == IF scr = "naive" THEN {0, RefImages(scr)} ELSE {RefImages(scr)}

\* Faulty variant: a shot with no mode key is text-anchored whatever its id.
DefaultsToText(scr, shot) ==
    IF scr = "naive" THEN "t2v"
    ELSE IF shot.mode = "none" THEN "t2v"
    ELSE shot.mode
\* Faulty variant: the mode key of the story entry is not read.
IgnoresModeKey(scr, shot) ==
    IF scr = "naive" THEN "t2v"
    ELSE IF shot.id = 1 THEN "t2v" ELSE "i2v"
\* shot.get("mode", "t2v" if shot_id == 1 else "i2v"); naive.py has no modes.
DeclaredMode(scr, shot) ==
    IF scr = "naive" THEN "t2v"
    ELSE IF shot.mode = "none" THEN (IF shot.id = 1 THEN "t2v" ELSE "i2v")
    ELSE shot.mode

\* Faulty variant: the clip is filed under the number before its own.
OffByOnePath(id) == id - 1
\* out_path = out_dir / f"{shot_id}.mp4"
OutPath(id) == id

\* Faulty variant: the poll loop never waits.
AlwaysDone(o) == TRUE
\* operation.done
OperationDone(o) == o = "done"

\* Faulty variant: the frame is always taken from the clip of shot 1.
FirstClipPath(id) == 1
\* prev_path = out_dir / f"{shot_id - 1}.mp4"
PrevPath(id) == id - 1

\* extract_last_frame(str(prev_path)) when it returns: a frame of the file at
\* path p as it is on disk now.
LastFrame(d, p) == [from |-> p, file |-> d[p]]

\* Faulty variant: a shot that asks for an image anchor is always downgraded.
AlwaysDowngraded(declared, prevThere, ok) ==
    IF declared = "i2v" THEN "t2v" ELSE declared
\* Faulty variant: the missing previous clip does not downgrade the shot.
AnchoredWithoutPrev(declared, prevThere, ok) ==
    IF declared = "i2v" THEN (IF ok THEN "i2v" ELSE "t2v") ELSE declared
\* Faulty variant: a failed extraction does not downgrade the shot.
AnchoredDespiteError(declared, prevThere, ok) ==
    IF declared = "i2v" THEN (IF prevThere THEN "i2v" ELSE "t2v") ELSE declared
\* shot_mode after the block "if shot_mode == 'i2v'": kept only when the
\* previous clip is there and its frame was extracted.
EffectiveMode(declared, prevThere, ok) ==
    IF declared = "i2v" THEN (IF prevThere /\ ok THEN "i2v" ELSE "t2v") ELSE declared

\* Faulty variant: the sleep also follows the last shot of the list.
PacingAfterEvery(list, id) == <<DELAY_BETWEEN_SHOTS_SECONDS>>
\* Faulty variant: no sleep between shots.
NoPacing(list, id) == <<>>
\* The sleep between shots, after the shot id of the list.
PacingSleeps(list, id) ==
    IF id # list[Len(list)].id THEN <<DELAY_BETWEEN_SHOTS_SECONDS>> ELSE <<>>

(* ------------------------------------------------------------------ state *)
VARIABLES
    script,       \* which process_story runs
    story,        \* story["shots"] as declared in the YAML file
    char_refs,    \* number of character reference images
    disk,         \* the output directory: path n -> file or NoFile
    pc,           \* position in process_story
    start_shot, end_shot,
    shots,        \* the sorted, range-filtered shot list
    idx,          \* 1-based position of the for loop in shots
    shot_mode, start_frame, prompt,
    attempt, success,
    op,           \* the operation last submitted: "none", "pending", "done"
    polls,        \* the sleeps of the poll loop of the current operation
    req,          \* the request last submitted
    reqs,         \* requests submitted for the current shot in this run
    lastErr,      \* the exception the except block caught last, for this shot
    log,          \* the notices printed for the current shot
    sleeps,       \* the time.sleep calls of the current shot's iteration
    exit_code,    \* the status of sys.exit, 0 while running or returned
    resume,       \* the id printed after "Resume with --start_shot"
    prev,         \* "done" in a run that repeats a run that printed "Done."
    checked,      \* the paths the current iteration of the for loop tested with exists()
    previous_video, \* bin/extend.py: the video object the next extension starts from
    duration,     \* extract_last_frame: what ffprobe printed, in tenths of a second
    offset_from_end,
    timestamp,    \* the -ss argument of ffmpeg, in tenths of a second
    frame_result  \* "none" before the call, then "frame" or "raised"

vars == <<script, story, char_refs, disk, pc, start_shot, end_shot, shots, idx,
          shot_mode, start_frame, prompt, attempt, success, op, polls, req, reqs,
          lastErr, log, sleeps, exit_code, resume, prev, checked, previous_video,
          duration, offset_from_end, timestamp, frame_result>>

frameVars == <<duration, offset_from_end, timestamp, frame_result>>
inputs == <<script, story, char_refs>>
shotLocals == <<shot_mode, start_frame, prompt>>

NoReq == [shape |-> "none", image |-> NoFrame, refs |-> 0, prompt |-> <<>>]

Shot == shots[idx]
shot_id == Shot.id

(* ------------------------------------------------------------------ inputs *)
RECURSIVE Perms(_)
Perms(S) == IF S = {} THEN {<<>>}
            ELSE UNION {{<<x>> \o p : p \in Perms(S \ {x})} : x \in S}

\* The ids of S in ascending order.
RECURSIVE Ascending(_)
Ascending(S) ==
    IF S = {} THEN <<>>
    ELSE LET m == CHOOSE x \in S : \A y \in S : x <= y
         IN  <<m>> \o Ascending(S \ {m})

IdSets == (SUBSET ShotIds) \ {{}}
StoryOf(order, m) == [i \in 1 .. Len(order) |-> [id |-> order[i], mode |-> m[order[i]]]]

\* Every shot of 1..MaxShotId, declared last to first, no mode keys.
ReversedStory == [i \in 1 .. MaxShotId |-> [id |-> MaxShotId + 1 - i, mode |-> "none"]]
\* Any set of ids, any mode per shot, declared in ascending order.
ModeStories == UNION {{StoryOf(Ascending(S), m) : m \in [S -> Modes]} : S \in IdSets}
\* Any set of ids in any declaration order, no mode keys.
OrderStories == UNION {{StoryOf(p, [i \in S |-> "none"]) : p \in Perms(S)} : S \in IdSets}

Files == {File(n, "pre") : n \in PreSizes}
\* Any output directory; the sweep over them leaves 0.mp4 out, which a story
\* without mode keys never looks at.
Disks == [Paths -> {NoFile} \cup Files]
\* The directories a chain leaves behind: the clips of shots 1..k, and the
\* directory that holds a clip 0 only (0.mp4 is only ever looked at for a
\* shot 1 that has no clip).
ChainDisks ==
    {[p \in Paths |-> IF (1 <= p /\ p <= k) \/ (p = 0 /\ k = -1)
                      THEN File(2 * MIN_VALID_BYTES, "pre") ELSE NoFile]
        : k \in -1 .. MaxShotId}

\* The command lines and directories the model starts from.
DirectorySweep ==
    /\ script = "video_generator"
    /\ story = ReversedStory
    /\ disk \in {d \in Disks : d[0] = NoFile}
    /\ start_shot \in ShotIds
    /\ end_shot \in {None} \cup ShotIds

StorySweep ==
    /\ script = "video_generator"
    /\ story \in ModeStories \cup OrderStories
    /\ disk \in ChainDisks
    /\ start_shot = 1
    /\ end_shot = None

NaiveSweep ==
    /\ script = "naive"
    /\ story = ReversedStory
    /\ disk \in ChainDisks
    /\ start_shot \in ShotIds
    /\ end_shot \in {None, MaxShotId}

\* extract_last_frame has not been called.
NoExtraction ==
    /\ duration = None
    /\ offset_from_end = FRAME_OFFSET_SECONDS
    /\ timestamp = None
    /\ frame_result = "none"

Init ==
    /\ \/ DirectorySweep
       \/ StorySweep
       \/ NaiveSweep
    /\ char_refs \in RefChoices(script)
    /\ pc = "idle"
    /\ shots = <<>>
    /\ idx = 1
    /\ shot_mode = "t2v"
    /\ start_frame = NoFrame
    /\ prompt = <<>>
    /\ attempt = 1
    /\ success = FALSE
    /\ op = "none"
    /\ polls = <<>>
    /\ req = NoReq
    /\ reqs = 0
    /\ lastErr = NoErr
    /\ log = <<>>
    /\ sleeps = <<>>
    /\ exit_code = 0
    /\ resume = 0
    /\ prev = "none"
    /\ checked = {}
    /\ previous_video = NoVideo
    /\ NoExtraction

(* ----------------------------------------------------------------- actions *)
\* process_story up to the for loop: load, sort, filter.
Enter(s, e, p) ==
    /\ start_shot' = s
    /\ end_shot' = e
    /\ shots' = SelectShots(story, s, e)
    /\ idx' = 1
    /\ pc' = "loop"
    /\ shot_mode' = "t2v"
    /\ start_frame' = NoFrame
    /\ prompt' = <<>>
    /\ attempt' = 1
    /\ success' = FALSE
    /\ op' = "none"
    /\ polls' = <<>>
    /\ req' = NoReq
    /\ reqs' = 0
    /\ lastErr' = NoErr
    /\ log' = <<>>
    /\ sleeps' = <<>>
    /\ exit_code' = 0
    /\ resume' = 0
    /\ prev' = p
    /\ checked' = {}
    /\ previous_video' = NoVideo
    /\ UNCHANGED <<frameVars, inputs, disk>>

ProcessStory ==
    /\ pc = "idle"
    /\ Enter(start_shot, end_shot, "none")

\* The operator runs the same command again after a run that printed "Done.".
Rerun ==
    /\ pc = "done"
    /\ Enter(start_shot, end_shot, "done")

\* The for loop is exhausted: print("Done.")
Done ==
    /\ pc = "loop"
    /\ idx > Len(shots)
    /\ pc' = "done"
    /\ UNCHANGED <<frameVars, inputs, checked, previous_video>>
    /\ UNCHANGED <<disk, start_shot, end_shot, shots, idx, shotLocals,
                   attempt, success, op, polls, req, reqs, lastErr, log, sleeps,
                   exit_code, resume, prev>>

\* if out_path.exists(): print(...); continue
Skip ==
    /\ pc = "loop"
    /\ idx <= Len(shots)
    /\ PathExists(disk, OutPath(shot_id))
    /\ log' = <<"skipping">>
    /\ sleeps' = <<>>
    /\ reqs' = 0
    /\ lastErr' = NoErr
    /\ idx' = idx + 1
    /\ checked' = {OutPath(shot_id)}
    /\ UNCHANGED <<frameVars, inputs, previous_video>>
    /\ UNCHANGED <<disk, pc, start_shot, end_shot, shots, shotLocals,
                   attempt, success, op, polls, req, exit_code, resume, prev>>

\* Mode resolution, frame extraction and build_prompt; ok: extract_last_frame
\* returned instead of raising (it is only called when the previous clip exists).
ResolveMode ==
    /\ pc = "loop"
    /\ idx <= Len(shots)
    /\ ~PathExists(disk, OutPath(shot_id))
    /\ \E ok \in BOOLEAN :
        LET declared == DeclaredMode(script, Shot)
            wantsFrame == declared = "i2v"
            prevThere == wantsFrame /\ disk[PrevPath(shot_id)] # NoFile
            mode == EffectiveMode(declared, prevThere, ok)
            notice == IF ~wantsFrame THEN <<>>
                      ELSE IF ~prevThere THEN <<"no_previous_fallback">>
                      ELSE IF ~ok THEN <<"extraction_failed_fallback">>
                      ELSE <<>>
        IN  /\ (~prevThere => ok)
            /\ shot_mode' = mode
            /\ start_frame' = IF mode = "i2v"
                              THEN LastFrame(disk, PrevPath(shot_id))
                              ELSE NoFrame
            /\ checked' = {OutPath(shot_id)} \cup (IF wantsFrame THEN {PrevPath(shot_id)} ELSE {})
            /\ prompt' = <<IF mode = "i2v" THEN "CONTINUATION_PREFIX" ELSE "HERO_PREFIX",
                           shot_id>>
            /\ log' = notice \o <<"generating">>
    /\ sleeps' = <<>>
    /\ reqs' = 0
    /\ lastErr' = NoErr
    /\ attempt' = 1
    /\ success' = FALSE
    /\ pc' = "attempt"
    /\ UNCHANGED <<frameVars, inputs, previous_video>>
    /\ UNCHANGED <<disk, start_shot, end_shot, shots, idx, op, polls, req,
                   exit_code, resume, prev>>

\* Faulty variant: the except block prints nothing for a rate-limited attempt.
HandleSilently(err) ==
    /\ lastErr' = err
    /\ log' = IF IsRateLimited(err) THEN log ELSE Append(log, "error")
    /\ sleeps' = sleeps \o BackoffSleeps(err, attempt)
    /\ IF HasNextAttempt(attempt)
       THEN /\ attempt' = attempt + 1
            /\ pc' = "attempt"
       ELSE /\ attempt' = attempt
            /\ pc' = "after"
    /\ UNCHANGED <<success, exit_code, resume>>
\* The except block of the retry loop, for the exception err, and the step of
\* the for loop over attempts that follows it.
Handle(err) ==
    /\ lastErr' = err
    /\ log' = Append(log, IF IsRateLimited(err) THEN "rate_limited" ELSE "error")
    /\ sleeps' = sleeps \o BackoffSleeps(err, attempt)
    /\ IF HasNextAttempt(attempt)
       THEN /\ attempt' = attempt + 1
            /\ pc' = "attempt"
       ELSE /\ attempt' = attempt
            /\ pc' = "after"
    /\ UNCHANGED <<success, exit_code, resume>>

\* Faulty variant: a retry of an image-anchored shot falls back to the text
\* shape.
RequestTextOnRetry ==
    IF shot_mode = "i2v" /\ reqs = 0
    THEN [shape |-> "i2v", image |-> start_frame, refs |-> 0, prompt |-> prompt]
    ELSE [shape |-> "t2v", image |-> NoFrame, refs |-> char_refs, prompt |-> prompt]
\* Faulty variant: the image request carries the reference images too.
RequestWithRefs ==
    IF shot_mode = "i2v"
    THEN [shape |-> "i2v", image |-> start_frame, refs |-> char_refs, prompt |-> prompt]
    ELSE [shape |-> "t2v", image |-> NoFrame, refs |-> char_refs, prompt |-> prompt]
\* generate_shot_t2v / generate_shot_i2v up to client.models.generate_videos.
Request ==
    IF shot_mode = "i2v"
    THEN [shape |-> "i2v", image |-> start_frame, refs |-> 0, prompt |-> prompt]
    ELSE [shape |-> "t2v", image |-> NoFrame, refs |-> char_refs, prompt |-> prompt]

\* One call of client.models.generate_videos: it returns an operation, pending
\* or already done, or raises. The exception of the attempt before is dead by
\* now (Python unbinds e when the except block ends).
Submit ==
    /\ pc = "attempt"
    /\ req' = Request
    /\ reqs' = reqs + 1
    /\ polls' = <<>>
    /\ \/ \E st \in {"pending", "done"} :
            /\ op' = st
            /\ pc' = "polling"
            /\ lastErr' = NoErr
            /\ UNCHANGED <<attempt, success, log, sleeps, exit_code, resume>>
       \/ \E marked \in BOOLEAN :
            /\ op' = "none"
            /\ Handle(ApiError(marked))
    /\ UNCHANGED <<frameVars, inputs, checked, previous_video>>
    /\ UNCHANGED <<disk, start_shot, end_shot, shots, idx, shotLocals, prev>>

\* while not operation.done: time.sleep(POLL_INTERVAL_SECONDS); operations.get
Poll ==
    /\ pc = "polling"
    /\ ~OperationDone(op)
    /\ polls' = Append(polls, POLL_INTERVAL_SECONDS)
    /\ \/ \E st \in {"pending", "done"} :
            /\ st = "pending" => Len(polls) + 1 < MaxPolls
            /\ op' = st
            /\ UNCHANGED <<pc, attempt, success, lastErr, log, sleeps, exit_code, resume>>
       \/ \E marked \in BOOLEAN :
            /\ op' = op
            /\ Handle(ApiError(marked))
    /\ UNCHANGED <<frameVars, inputs, checked, previous_video>>
    /\ UNCHANGED <<disk, start_shot, end_shot, shots, idx, shotLocals, req,
                   reqs, prev>>

\* The operation is done: the response checks, the download (USE_VERTEX false,
\* the default: files.download runs and can raise), video_file.save.
Finish ==
    /\ pc = "polling"
    /\ OperationDone(op)
    /\ \/ \E novideos \in BOOLEAN, marked \in BOOLEAN :
            /\ Handle(EmptyError(script, novideos, marked))
            /\ UNCHANGED disk
       \/ \E marked \in BOOLEAN :
            /\ Handle(ApiError(marked))
            /\ UNCHANGED disk
       \/ \E n \in PayloadSizes :
            /\ disk' = [disk EXCEPT ![OutPath(shot_id)] = File(n, "gen")]
            /\ pc' = "saved"
            /\ UNCHANGED <<attempt, success, lastErr, log, sleeps, exit_code, resume>>
    /\ UNCHANGED <<frameVars, inputs, checked, previous_video>>
    /\ UNCHANGED <<start_shot, end_shot, shots, idx, shotLocals, op, polls,
                   req, reqs, prev>>

\* size = out_path.stat().st_size; the undersized file is unlinked.
Validate ==
    /\ pc = "saved"
    /\ LET size == disk[OutPath(shot_id)].size
       IN  IF TooSmall(size)
           THEN /\ disk' = [disk EXCEPT ![OutPath(shot_id)] = NoFile]
                /\ Handle(TooSmallError(size))
           ELSE /\ log' = Append(log, "saved")
                /\ success' = TRUE
                /\ pc' = "after"
                /\ UNCHANGED <<disk, attempt, lastErr, sleeps, exit_code, resume>>
    /\ UNCHANGED <<frameVars, inputs, checked, previous_video>>
    /\ UNCHANGED <<start_shot, end_shot, shots, idx, shotLocals, op, polls,
                   req, reqs, prev>>

\* if not success: print(... FAILED ... Resume with --start_shot); sys.exit(1)
Halt ==
    /\ pc = "after"
    /\ MustHalt(success, lastErr)
    /\ log' = Append(log, "FAILED")
    /\ exit_code' = 1
    /\ resume' = shot_id
    /\ pc' = "halted"
    /\ UNCHANGED <<frameVars, inputs, checked, previous_video>>
    /\ UNCHANGED <<disk, start_shot, end_shot, shots, idx, shotLocals,
                   attempt, success, op, polls, req, reqs, lastErr, sleeps, prev>>

\* if shot["id"] != shots[-1]["id"]: time.sleep(DELAY_BETWEEN_SHOTS_SECONDS)
Advance ==
    /\ pc = "after"
    /\ ~MustHalt(success, lastErr)
    /\ sleeps' = sleeps \o PacingSleeps(shots, shot_id)
    /\ idx' = idx + 1
    /\ pc' = "loop"
    /\ UNCHANGED <<frameVars, inputs, checked, previous_video>>
    /\ UNCHANGED <<disk, start_shot, end_shot, shots, shotLocals, attempt,
                   success, op, polls, req, reqs, lastErr, log, exit_code, resume,
                   prev>>

Next ==
    \/ ProcessStory
    \/ Rerun
    \/ Done
    \/ Skip
    \/ ResolveMode
    \/ Submit
    \/ Poll
    \/ Finish
    \/ Validate
    \/ Halt
    \/ Advance

Spec == Init /\ [][Next]_vars

(* ------------------------------------------------------------- termination *)
\* Runs of video_generator.py over the whole story declared last to first, on
\* the directory a chain left behind, in which the program always takes its
\* next step and the service answers every call: a pending operation is
\* reported done, or a status call fails, within MaxPolls status checks.
InitLive ==
    /\ Init
    /\ script = "video_generator"
    /\ story = ReversedStory
    /\ disk \in ChainDisks

SpecLive == InitLive /\ [][Next]_vars /\ WF_vars(Next)

(* ------------------------------------------------ interruption and resume *)
\* The process is killed between two steps of a run: nothing more is written,
\* slept or printed, and the directory stays as the last step left it.
Kill ==
    /\ pc \in {"loop", "attempt", "polling", "saved", "after"}
    /\ pc' = "killed"
    /\ UNCHANGED <<frameVars, inputs, checked, previous_video>>
    /\ UNCHANGED <<disk, start_shot, end_shot, shots, idx, shotLocals, attempt,
                   success, op, polls, req, reqs, lastErr, log, sleeps,
                   exit_code, resume, prev>>

\* The operator runs the same command again on the same directory after the
\* process was killed.
Restart ==
    /\ pc = "killed"
    /\ \E s \in {start_shot, 1} : Enter(s, end_shot, "killed")

NextKilled ==
    \/ Next
    \/ Kill
    \/ Restart

SpecKilled == InitLive /\ [][NextKilled]_vars

\* The operator runs the pipeline again on the same directory after a chain
\* halt: with the --start_shot the FAILED line named, with the default
\* --start_shot, or with the one of the halted run.
Resume ==
    /\ pc = "halted"
    /\ \E s \in {resume, 1, start_shot} : Enter(s, end_shot, "halted")

NextResume ==
    \/ Next
    \/ Resume

SpecResume == InitLive /\ [][NextResume]_vars

(* ------------------------------------------------------ extract_last_frame *)
\* Faulty variant: the timestamp is not clamped at 0.
Unclamped(d, offset) == d - offset
\* timestamp = max(0, duration - offset_from_end)
Timestamp(d, offset) == IF d - offset > 0 THEN d - offset ELSE 0

\* The offsets extract_last_frame is called with: the default, none, and one
\* longer than the default.
Offsets == {0, FRAME_OFFSET_SECONDS, 2 * FRAME_OFFSET_SECONDS + 5}

\* extract_last_frame is about to be called on a clip for which ffprobe
\* prints a duration of 0 to MaxDuration tenths of a second, or no number
\* ("N/A"); the pipeline around it stands still.
InitFrame ==
    /\ script = "video_generator"
    /\ story = ReversedStory
    /\ char_refs = RefImages(script)
    /\ disk \in {d \in ChainDisks : d[1] # NoFile /\ d[2] = NoFile}
    /\ start_shot = 1
    /\ end_shot = None
    /\ pc = "idle"
    /\ shots = <<>>
    /\ idx = 1
    /\ shot_mode = "t2v"
    /\ start_frame = NoFrame
    /\ prompt = <<>>
    /\ attempt = 1
    /\ success = FALSE
    /\ op = "none"
    /\ polls = <<>>
    /\ req = NoReq
    /\ reqs = 0
    /\ lastErr = NoErr
    /\ log = <<>>
    /\ sleeps = <<>>
    /\ exit_code = 0
    /\ resume = 0
    /\ prev = "none"
    /\ checked = {}
    /\ previous_video = NoVideo
    /\ duration \in (0 .. MaxDuration) \cup {None}
    /\ offset_from_end \in Offsets
    /\ timestamp = None
    /\ frame_result = "none"

\* One call of extract_last_frame: ffprobe fails or prints no number and the
\* call raises before a timestamp is computed; otherwise the timestamp is
\* computed and ffmpeg returns the frame or fails.
ExtractLastFrame ==
    /\ frame_result = "none"
    /\ \E ffprobe_ok \in BOOLEAN, ffmpeg_ok \in BOOLEAN :
          IF ~ffprobe_ok \/ duration = None
          THEN /\ timestamp' = None
               /\ frame_result' = "raised"
          ELSE /\ timestamp' = Timestamp(duration, offset_from_end)
               /\ frame_result' = IF ffmpeg_ok THEN "frame" ELSE "raised"
    /\ UNCHANGED <<duration, offset_from_end>>
    /\ UNCHANGED <<inputs, disk, pc, start_shot, end_shot, shots, idx,
                   shotLocals, attempt, success, op, polls, req, reqs, lastErr,
                   log, sleeps, exit_code, resume, prev, checked, previous_video>>

NextFrame == ExtractLastFrame

SpecFrame == InitFrame /\ [][NextFrame]_vars

(* ------------------------------------------- bin/extend.py: extension mode *)
\* Any set of ids declared last to first, no mode keys.
DescendingStories ==
    {[i \in 1 .. Len(Ascending(S)) |->
         [id |-> Ascending(S)[Len(Ascending(S)) + 1 - i], mode |-> "none"]] : S \in IdSets}

\* The command lines and directories of bin/extend.py: a story without mode
\* keys, --ref_image given or not; extend.py has no shot range options.
ExtendSweep ==
    /\ script = "extend"
    /\ story \in DescendingStories
    /\ disk \in ChainDisks
    /\ char_refs \in {0, 1}
    /\ start_shot = 1
    /\ end_shot = None

InitExtend ==
    /\ ExtendSweep
    /\ pc = "idle"
    /\ shots = <<>>
    /\ idx = 1
    /\ shot_mode = "t2v"
    /\ start_frame = NoFrame
    /\ prompt = <<>>
    /\ attempt = 1
    /\ success = FALSE
    /\ op = "none"
    /\ polls = <<>>
    /\ req = NoReq
    /\ reqs = 0
    /\ lastErr = NoErr
    /\ log = <<>>
    /\ sleeps = <<>>
    /\ exit_code = 0
    /\ resume = 0
    /\ prev = "none"
    /\ checked = {}
    /\ previous_video = NoVideo
    /\ NoExtraction

\* The video object returned by attempt n of shot id.
VideoOf(id, n) == [of |-> id, try |-> n]

\* process_story of extend.py up to the for loop: load, sort.
ExtendProcessStory ==
    /\ pc = "idle"
    /\ shots' = SortById(story)
    /\ idx' = 1
    /\ previous_video' = NoVideo
    /\ pc' = "loop"
    /\ UNCHANGED <<frameVars, inputs, disk, start_shot, end_shot, shotLocals, attempt, success,
                   op, polls, req, reqs, lastErr, log, sleeps, exit_code, resume,
                   prev, checked>>

\* The for loop is exhausted: print("Done.")
ExtendDone ==
    /\ pc = "loop"
    /\ idx > Len(shots)
    /\ pc' = "done"
    /\ UNCHANGED <<frameVars, inputs, disk, start_shot, end_shot, shots, idx, shotLocals,
                   attempt, success, op, polls, req, reqs, lastErr, log, sleeps,
                   exit_code, resume, prev, checked, previous_video>>

\* The head of an iteration: no existence check; build_prompt, is_first, the
\* "generating from scratch" / "extending from previous" line.
ExtendBegin ==
    /\ pc = "loop"
    /\ idx <= Len(shots)
    /\ prompt' = <<"HERO_PREFIX", shot_id>>
    /\ log' = <<IF idx = 1 THEN "from_scratch" ELSE "extending">>
    /\ sleeps' = <<>>
    /\ reqs' = 0
    /\ lastErr' = NoErr
    /\ attempt' = 1
    /\ pc' = "attempt"
    /\ UNCHANGED <<frameVars, inputs, disk, start_shot, end_shot, shots, idx, shot_mode,
                   start_frame, success, op, polls, req, exit_code, resume, prev,
                   checked, previous_video>>

\* The except block of extend.py for the exception err, and the step of the
\* for loop over attempts that follows it: the rate-limit branch only sleeps;
\* the other branch returns from process_story at the last attempt.
ExtendHandle(err) ==
    /\ lastErr' = err
    /\ IF IsRateLimited(err)
       THEN /\ log' = Append(log, "rate_limited")
            /\ sleeps' = Append(sleeps, RETRY_BACKOFF_SECONDS * attempt)
            /\ IF HasNextAttempt(attempt)
               THEN attempt' = attempt + 1 /\ pc' = "attempt"
               ELSE attempt' = attempt /\ pc' = "after"
       ELSE IF attempt = MAX_RETRIES
            THEN /\ log' = log \o <<"error", "FAILED">>
                 /\ sleeps' = sleeps
                 /\ attempt' = attempt
                 /\ pc' = "stopped"
            ELSE /\ log' = Append(log, "error")
                 /\ sleeps' = Append(sleeps, RETRY_BACKOFF_SECONDS)
                 /\ attempt' = attempt + 1
                 /\ pc' = "attempt"
    /\ UNCHANGED <<success, exit_code, resume>>

\* generate_first_shot / extend_from_previous up to generate_videos: the first
\* shot of the list carries the reference image, every other shot the video
\* object previous_video holds now.
ExtendRequest ==
    IF idx = 1
    THEN [shape |-> "first", image |-> NoFrame, refs |-> char_refs, prompt |-> prompt,
          video |-> NoVideo]
    ELSE [shape |-> "extend", image |-> NoFrame, refs |-> 0, prompt |-> prompt,
          video |-> previous_video]

\* One call of client.models.generate_videos.
ExtendSubmit ==
    /\ pc = "attempt"
    /\ req' = ExtendRequest
    /\ reqs' = reqs + 1
    /\ polls' = <<>>
    /\ \/ \E st \in {"pending", "done"} :
            /\ op' = st
            /\ pc' = "polling"
            /\ lastErr' = NoErr
            /\ UNCHANGED <<attempt, success, log, sleeps, exit_code, resume>>
       \/ \E marked \in BOOLEAN :
            /\ op' = "none"
            /\ ExtendHandle(ApiError(marked))
    /\ UNCHANGED <<frameVars, inputs, disk, start_shot, end_shot, shots, idx, shotLocals, prev,
                   checked, previous_video>>

\* poll_operation: while not operation.done: sleep; operations.get
ExtendPoll ==
    /\ pc = "polling"
    /\ op = "pending"
    /\ polls' = Append(polls, POLL_INTERVAL_SECONDS)
    /\ \/ \E st \in {"pending", "done"} :
            /\ st = "pending" => Len(polls) + 1 < MaxPolls
            /\ op' = st
            /\ UNCHANGED <<pc, attempt, success, lastErr, log, sleeps, exit_code, resume>>
       \/ \E marked \in BOOLEAN :
            /\ op' = op
            /\ ExtendHandle(ApiError(marked))
    /\ UNCHANGED <<frameVars, inputs, disk, start_shot, end_shot, shots, idx, shotLocals, req,
                   reqs, prev, checked, previous_video>>

\* The operation is done. poll_operation raises on a missing response (the
\* text of operation.error is in the message); generated_videos[0] raises
\* IndexError on an empty list; files.download can raise. When the generate
\* function returns, previous_video is bound to the new video object, and
\* then out_path.write_bytes(video_file) runs.
ExtendFinish ==
    /\ pc = "polling"
    /\ op = "done"
    /\ \/ \E novideos \in BOOLEAN, marked \in BOOLEAN :
            /\ ExtendHandle([kind |-> "empty",
                             marked |-> IF novideos THEN FALSE ELSE marked,
                             size |-> -1])
            /\ UNCHANGED <<disk, previous_video>>
       \/ \E marked \in BOOLEAN :
            /\ ExtendHandle(ApiError(marked))
            /\ UNCHANGED <<disk, previous_video>>
       \/ \E n \in PayloadSizes :
            /\ previous_video' = VideoOf(shot_id, attempt)
            /\ disk' = [disk EXCEPT ![shot_id] = File(n, "gen")]
            /\ pc' = "saved"
            /\ UNCHANGED <<attempt, success, lastErr, log, sleeps, exit_code, resume>>
    /\ UNCHANGED <<frameVars, inputs, start_shot, end_shot, shots, idx, shotLocals, op, polls,
                   req, reqs, prev, checked>>

\* size = out_path.stat().st_size; the undersized file is unlinked; a valid
\* one ends the retry loop (break).
ExtendValidate ==
    /\ pc = "saved"
    /\ LET size == disk[shot_id].size
       IN  IF TooSmall(size)
           THEN /\ disk' = [disk EXCEPT ![shot_id] = NoFile]
                /\ ExtendHandle(TooSmallError(size))
           ELSE /\ log' = Append(log, "saved")
                /\ pc' = "after"
                /\ UNCHANGED <<disk, attempt, success, lastErr, sleeps, exit_code,
                               resume>>
    /\ UNCHANGED <<frameVars, inputs, start_shot, end_shot, shots, idx, shotLocals, op, polls,
                   req, reqs, prev, checked, previous_video>>

\* After the retry loop, however it ended:
\* if shot["id"] != shots[-1]["id"]: time.sleep(DELAY_BETWEEN_SHOTS_SECONDS)
ExtendAdvance ==
    /\ pc = "after"
    /\ sleeps' = sleeps \o PacingSleeps(shots, shot_id)
    /\ idx' = idx + 1
    /\ pc' = "loop"
    /\ UNCHANGED <<frameVars, inputs, disk, start_shot, end_shot, shots, shotLocals, attempt,
                   success, op, polls, req, reqs, lastErr, log, exit_code, resume,
                   prev, checked, previous_video>>

NextExtend ==
    \/ ExtendProcessStory
    \/ ExtendDone
    \/ ExtendBegin
    \/ ExtendSubmit
    \/ ExtendPoll
    \/ ExtendFinish
    \/ ExtendValidate
    \/ ExtendAdvance

SpecExtend == InitExtend /\ [][NextExtend]_vars

(* ------------------------------------------------------------------ claims *)
IsFailure(x) == x \in {"rate_limited", "error"}
\* The failure notices of the current shot, one per failed attempt.
Failures(l) == SelectSeq(l, IsFailure)
\* This step is an attempt of the current shot failing.
AttemptFailed == Len(Failures(log')) = Len(Failures(log)) + 1
\* Every attempt the retry loop has for the current shot has failed.
Exhausted == Len(Failures(log)) = MAX_RETRIES
Undersized(p) == disk[p] # NoFile /\ disk[p].size < MIN_VALID_BYTES

\* C1: a shot whose artifact file exists when the for loop reaches it is
\* skipped: the step only moves to the next shot; no frame is extracted, no
\* request is submitted, nothing sleeps, and the directory is unchanged,
\* whatever the size of the file.
C1_SkipExisting ==
    [][(pc = "loop" /\ idx <= Len(shots) /\ disk[shots[idx].id] # NoFile)
         => /\ pc' = "loop"
            /\ idx' = idx + 1
            /\ disk' = disk
            /\ reqs' = 0
            /\ req' = req
            /\ op' = op
            /\ sleeps' = <<>>
            /\ start_frame' = start_frame
            /\ log' = <<"skipping">>]_vars

\* An undersized file left in the directory has just been skipped.
C1_Witness ==
    /\ pc = "loop"
    /\ idx > 1
    /\ log = <<"skipping">>
    /\ disk[shots[idx - 1].id].size = MIN_VALID_BYTES - 1

\* C2: in a run that repeats, over the same story, range and directory, a run
\* that ended with "Done.", no request is submitted, every shot is skipped
\* and no file of the directory changes.
C2_IdempotentResume ==
    [][prev = "done"
         => /\ disk' = disk
            /\ reqs' = 0
            /\ op' = "none"
            /\ req' = NoReq
            /\ pc' \in {"loop", "done"}
            /\ (pc = "loop" /\ idx <= Len(shots)
                    => idx' = idx + 1 /\ log' = <<"skipping">>)]_vars

\* The second run is over, after a first run that generated a clip.
C2_Witness ==
    /\ prev = "done"
    /\ pc = "done"
    /\ Len(shots) >= 2
    /\ \E p \in Paths : disk[p].origin = "gen"

\* C3: once all MAX_RETRIES attempts of a shot have failed, whatever the kinds
\* of failure, the only step left to the run is the halt: exit status 1, the
\* failed shot's id as the resume point, and no request for a later shot.
C3_ChainHalt ==
    [][Exhausted
         => /\ pc = "after"
            /\ ~success
            /\ pc' = "halted"
            /\ exit_code' = 1
            /\ resume' = shots[idx].id
            /\ idx' = idx
            /\ reqs' = reqs
            /\ req' = req
            /\ disk' = disk]_vars

\* The chain halted before its last shot, after rate-limited and other failures.
C3_Witness ==
    /\ pc = "halted"
    /\ idx < Len(shots)
    /\ resume = shots[idx].id
    /\ \E i, j \in 1 .. MAX_RETRIES :
          Failures(log)[i] = "rate_limited" /\ Failures(log)[j] = "error"

\* C4: a shot gets at most MAX_RETRIES requests in a run; every failed attempt,
\* rate limited or not, has used one of them; and a request is only submitted
\* for a shot that has no persisted attempt.
C4_AttemptBudget ==
    [][/\ reqs' <= MAX_RETRIES
       /\ reqs' = reqs + 1
            => /\ ~success
               /\ disk[shots[idx].id] = NoFile
               /\ Len(Failures(log)) = reqs]_vars

\* The third request succeeded after two rate-limited attempts.
C4_Witness ==
    /\ pc = "after"
    /\ success
    /\ reqs = MAX_RETRIES
    /\ Failures(log) = <<"rate_limited", "rate_limited">>

\* C5: an attempt n that fails as rate limited is followed by a sleep of
\* n * RETRY_BACKOFF_SECONDS, the last attempt included; three rate-limited
\* attempts sleep 60, 120, 180 and the chain halts.
C5_RateLimitBackoff ==
    [][/\ (AttemptFailed /\ lastErr'.kind = "api" /\ lastErr'.marked)
            => sleeps' = Append(sleeps, attempt * RETRY_BACKOFF_SECONDS)
       /\ Failures(log') = <<"rate_limited", "rate_limited", "rate_limited">>
            => /\ sleeps' = <<60, 120, 180>>
               /\ ~success'
               /\ pc' \in {"after", "halted"}
       /\ (pc = "after"
           /\ Failures(log) = <<"rate_limited", "rate_limited", "rate_limited">>)
            => pc' = "halted"]_vars

\* The chain halted after three rate-limited attempts.
C5_Witness ==
    /\ pc = "halted"
    /\ sleeps = <<60, 120, 180>>
    /\ lastErr = [kind |-> "api", marked |-> TRUE, size |-> -1]

\* A failure the claims count as no rate limit: an SDK error or an empty
\* response whose text has no rate-limit marker, or a validation failure.
NonRateLimit(e) ==
    \/ e.kind \in {"api", "empty"} /\ ~e.marked
    \/ e.kind = "invalid"

\* C6: an attempt n that fails with an error other than a rate limit is
\* followed by a sleep of RETRY_BACKOFF_SECONDS and a retry when
\* n < MAX_RETRIES, and by no sleep and no further attempt when n = MAX_RETRIES.
C6_FixedBackoff ==
    [][(AttemptFailed /\ NonRateLimit(lastErr'))
         => /\ sleeps' = sleeps \o (IF attempt < MAX_RETRIES
                                    THEN <<RETRY_BACKOFF_SECONDS>> ELSE <<>>)
            /\ attempt < MAX_RETRIES => pc' = "attempt" /\ attempt' = attempt + 1
            /\ attempt = MAX_RETRIES => pc' = "after" /\ ~success']_vars

\* C7: a saved download below MIN_VALID_BYTES is deleted and its attempt
\* fails, with a retry while attempts remain; one of at least MIN_VALID_BYTES
\* is kept, and the run moves to the next shot without another request.
C7_ValidationBoundary ==
    [][/\ pc = "saved"
            => LET id == shots[idx].id
                   size == disk[id].size
               IN  /\ size < MIN_VALID_BYTES
                        => /\ disk'[id] = NoFile
                           /\ ~success'
                           /\ AttemptFailed
                           /\ lastErr'.kind = "invalid"
                           /\ attempt < MAX_RETRIES
                                => pc' = "attempt" /\ attempt' = attempt + 1
                   /\ size >= MIN_VALID_BYTES
                        => /\ disk' = disk
                           /\ success'
                           /\ pc' = "after"
                           /\ reqs' = reqs
       /\ (pc = "after" /\ success)
            => /\ pc' = "loop"
               /\ idx' = idx + 1
               /\ disk' = disk
               /\ reqs' = reqs]_vars

\* A payload of exactly MIN_VALID_BYTES was kept on the second attempt.
C7_Witness ==
    /\ pc = "after"
    /\ success
    /\ reqs = 2
    /\ Failures(log) = <<"error">>
    /\ disk[shots[idx].id] = File(MIN_VALID_BYTES, "gen")

\* C8: an undersized download, of any byte length, is deleted, uses up its
\* attempt, and is followed by the fixed backoff of the other errors and
\* never by the attempt-scaled one.
C8_ValidationLikeError ==
    [][(pc = "saved" /\ Undersized(shots[idx].id))
         => /\ disk'[shots[idx].id] = NoFile
            /\ AttemptFailed
            /\ sleeps' = sleeps \o (IF attempt < MAX_RETRIES
                                    THEN <<RETRY_BACKOFF_SECONDS>> ELSE <<>>)]_vars

\* C9: when the for loop checks for files and when a run has ended, every
\* file the pipeline wrote has at least MIN_VALID_BYTES bytes.
C9_NoFalseDone ==
    pc \in {"loop", "done", "halted"}
        => \A p \in Paths : disk[p].origin = "gen" => disk[p].size >= MIN_VALID_BYTES

\* The run halted on an undersized download, with a clip of this run on disk.
C9_Witness ==
    /\ pc = "halted"
    /\ lastErr.kind = "invalid"
    /\ \E p \in Paths : disk[p].origin = "gen"

\* C10: the shot list of a run holds the in-range shots of the story in
\* strictly ascending id order, the for loop only moves forward in it, and
\* every file written or deleted is the file of the shot the loop is at.
C10_AscendingOrder ==
    [][pc' # "idle"
         => /\ \A i, j \in 1 .. Len(shots') : i < j => shots'[i].id < shots'[j].id
            /\ {shots'[i].id : i \in 1 .. Len(shots')}
                 = {story[i].id : i \in {k \in 1 .. Len(story) :
                        /\ story[k].id >= start_shot'
                        /\ end_shot' = None \/ story[k].id <= end_shot'}}
            /\ pc \notin {"idle", "done"} => idx' \in {idx, idx + 1}
            /\ \A p \in Paths : disk'[p] # disk[p] => p = shots[idx].id
            /\ reqs' = reqs + 1 => req'.prompt[2] = shots[idx].id]_vars

\* A story declared out of order was generated to the end.
C10_Witness ==
    /\ pc = "done"
    /\ Len(shots) >= 2
    /\ story[1].id > story[2].id
    /\ \A i \in 1 .. Len(shots) : disk[shots[i].id].origin = "gen"

\* The for loop is inside the iteration of shots[idx], past the skip check.
InShot == pc \in {"attempt", "polling", "saved", "after", "halted"}
\* The story entry asks for an image-anchored shot: by its mode key, or, the
\* key missing, by the default of every shot but shot 1.
Declared(shot) == shot.mode = "i2v"
Defaulted(shot) == shot.mode = "none" /\ shot.id # 1
WantsAnchor(shot) == script = "video_generator" /\ (Declared(shot) \/ Defaulted(shot))

\* C11: while the loop works on a shot that asks for an image anchor and the
\* file of shot id - 1 is absent, the mode is text-anchored, no frame is held,
\* the fallback notice was printed first, every request of the shot is of the
\* text shape with the reference images, the retry loop starts with its full
\* budget, and the run only halts after MAX_RETRIES failed attempts.
C11_DowngradeMissingPrev ==
    (InShot /\ WantsAnchor(shots[idx]) /\ disk[shots[idx].id - 1] = NoFile)
        => /\ shot_mode = "t2v"
           /\ start_frame = NoFrame
           /\ Head(log) = "no_previous_fallback"
           /\ log[2] = "generating"
           /\ reqs > 0 => /\ req.shape = "t2v"
                          /\ req.image = NoFrame
                          /\ req.refs = char_refs
           /\ reqs = 0 => pc = "attempt" /\ attempt = 1
           /\ (pc = "halted" \/ exit_code # 0) => Exhausted

\* A shot declared i2v whose predecessor is missing was generated text-anchored.
C11_Witness ==
    /\ pc = "after"
    /\ success
    /\ shots[idx].mode = "i2v"
    /\ disk[shots[idx].id - 1] = NoFile
    /\ Head(log) = "no_previous_fallback"
    /\ req.shape = "t2v"

\* C12: a shot that asks for an image anchor, whose previous clip exists and
\* for which no frame came out of the extraction, carries the extraction
\* notice; under that notice the mode is text-anchored for every attempt, no
\* frame is extracted later, the retry loop starts at attempt 1 with no
\* request made, and the run only halts after MAX_RETRIES failed requests.
C12_DowngradeExtractionFailure ==
    /\ (InShot /\ WantsAnchor(shots[idx]) /\ disk[shots[idx].id - 1] # NoFile
        /\ start_frame = NoFrame)
            => Head(log) = "extraction_failed_fallback"
    /\ (InShot /\ Head(log) = "extraction_failed_fallback")
            => /\ WantsAnchor(shots[idx])
               /\ disk[shots[idx].id - 1] # NoFile
               /\ shot_mode = "t2v"
               /\ start_frame = NoFrame
               /\ log[2] = "generating"
               /\ reqs > 0 => req.shape = "t2v" /\ req.image = NoFrame
               /\ reqs = 0 => pc = "attempt" /\ attempt = 1
               /\ Len(Failures(log)) <= reqs
               /\ (pc = "halted" \/ exit_code # 0)
                    => Exhausted /\ reqs = MAX_RETRIES

\* After a failed extraction the shot was saved by its third request.
C12_Witness ==
    /\ pc = "after"
    /\ success
    /\ Head(log) = "extraction_failed_fallback"
    /\ reqs = MAX_RETRIES
    /\ req.shape = "t2v"
    /\ disk[shots[idx].id - 1] # NoFile

\* C13: a request of the image shape is only sent for a shot whose story
\* entry declares the mode i2v and whose previous clip is on disk; every
\* other request is of the text shape.
C13_AnchoredOnlyIfDeclared ==
    (InShot /\ reqs > 0)
        => /\ req.shape \in {"i2v", "t2v"}
           /\ req.shape = "i2v"
                => /\ script = "video_generator"
                   /\ Declared(shots[idx])
                   /\ disk[shots[idx].id - 1] # NoFile

\* C13, amended: a request of the image shape is only sent for a shot whose
\* story entry declares the mode i2v, or has no mode key and an id other than
\* 1, and whose previous clip is on disk and gave a frame; every other request
\* is of the text shape.
C13_AnchoredOnlyIfResolved ==
    (InShot /\ reqs > 0)
        => /\ req.shape \in {"i2v", "t2v"}
           /\ req.shape = "i2v"
                => /\ script = "video_generator"
                   /\ Declared(shots[idx]) \/ Defaulted(shots[idx])
                   /\ disk[shots[idx].id - 1] # NoFile
                   /\ Head(log) = "generating"

\* A shot with no mode key was generated from its predecessor's frame.
C13_Witness ==
    /\ pc = "after"
    /\ success
    /\ req.shape = "i2v"
    /\ shots[idx].mode = "none"
    /\ disk[shots[idx].id - 1] # NoFile

\* The scenario of the chain: shot 1 text-anchored, shots 2 and 3
\* image-anchored, only the clip of shot 1 in the directory before the run.
ChainStory ==
    <<[id |-> 1, mode |-> "t2v"], [id |-> 2, mode |-> "i2v"], [id |-> 3, mode |-> "i2v"]>>
InChainScenario ==
    /\ script = "video_generator"
    /\ story = ChainStory
    /\ pc # "idle"
    /\ prev = "none"
    /\ disk[1].origin = "pre"
    /\ disk[2].origin # "pre"
    /\ disk[3].origin # "pre"

\* C14: a shot that asks for an image anchor, whose previous clip is on disk
\* and whose extraction raised nothing, holds the frame of the file that path
\* id - 1 has now, and each of its requests is of the image shape with that
\* frame as its image. In the chain scenario shot 1 is never generated, the
\* requests of shot 2 carry the frame of the clip found for shot 1, those of
\* shot 3 the frame of the clip this run wrote for shot 2, a valid first
\* download ends the shot's attempts, and the run that ends has exit status 0
\* and all three clips.
C14_ChainContinuity ==
    /\ (InShot /\ WantsAnchor(shots[idx]) /\ disk[shots[idx].id - 1] # NoFile
        /\ Head(log) = "generating")
            => LET id == shots[idx].id
                   frame == [from |-> id - 1, file |-> disk[id - 1]]
               IN  /\ shot_mode = "i2v"
                   /\ start_frame = frame
                   /\ reqs > 0 => req.shape = "i2v" /\ req.image = frame
    /\ InChainScenario
            => /\ InShot => shots[idx].id # 1
               /\ disk[1].origin = "pre"
               /\ (InShot /\ reqs > 0 /\ Head(log) = "generating")
                    => /\ req.shape = "i2v"
                       /\ shots[idx].id = 2
                            => req.image.from = 1 /\ req.image.file.origin = "pre"
                       /\ shots[idx].id = 3
                            => req.image = [from |-> 2,
                                            file |-> File(MIN_VALID_BYTES, "gen")]
               /\ (pc = "after" /\ reqs = 1 /\ Failures(log) = <<>>) => success
               /\ pc = "done"
                    => /\ exit_code = 0
                       /\ disk[2].origin = "gen"
                       /\ disk[3].origin = "gen"

\* The chain scenario ran to "Done.": shot 3 was saved by its first request,
\* which carried the frame of the clip this run wrote for shot 2.
C14_Witness ==
    /\ InChainScenario
    /\ pc = "done"
    /\ reqs = 1
    /\ log = <<"generating", "saved">>
    /\ req.image = [from |-> 2, file |-> disk[2]]
    /\ disk[2].origin = "gen"

\* C15: a request of the image shape carries one image, a frame extracted
\* from a clip that exists, and no reference images; a request of the text
\* shape carries no image and the reference images of the run, none of them
\* when the run has none.
C15_ExclusiveShapes ==
    reqs > 0
        => /\ req.shape \in {"i2v", "t2v"}
           /\ req.shape = "i2v"
                => /\ req.image # NoFrame
                   /\ req.image.file # NoFile
                   /\ req.refs = 0
           /\ req.shape = "t2v"
                => /\ req.image = NoFrame
                   /\ req.refs = char_refs
                   /\ req.refs >= 0

\* Both shapes were sent in one run: a request with an image and no
\* reference images after a clip generated from text with reference images.
C15_Witness ==
    /\ reqs > 0
    /\ req.shape = "i2v"
    /\ req.refs = 0
    /\ char_refs > 0
    /\ req.image.file.origin = "gen"

\* C16: the exit status is non-zero exactly in the halted state, which is
\* reached exactly from a shot of the range whose MAX_RETRIES attempts all
\* failed: the FAILED line names that shot as the --start_shot to resume with;
\* such a shot has no file and the loop cannot move past it. A run that
\* printed "Done." has exit status 0 and a file for every story shot in the
\* range.
C16_RunOutcome ==
    /\ exit_code \in {0, 1}
    /\ exit_code # 0 <=> pc = "halted"
    /\ pc = "halted"
            => /\ Len(Failures(log)) = MAX_RETRIES
               /\ log[Len(log)] = "FAILED"
               /\ resume = shots[idx].id
               /\ shots[idx].id >= start_shot
               /\ end_shot = None \/ shots[idx].id <= end_shot
               /\ disk[shots[idx].id] = NoFile
    /\ (InShot /\ Len(Failures(log)) = MAX_RETRIES)
            => /\ pc \in {"after", "halted"}
               /\ disk[shots[idx].id] = NoFile
               /\ pc = "after" => ENABLED Halt /\ ~ENABLED Advance
    /\ pc = "done"
            => \A i \in 1 .. Len(story) :
                  (story[i].id >= start_shot /\ (end_shot = None \/ story[i].id <= end_shot))
                      => disk[story[i].id] # NoFile

\* naive.py halted on a shot after the first of a range that starts past 1.
C16_Witness ==
    /\ script = "naive"
    /\ pc = "halted"
    /\ exit_code = 1
    /\ start_shot > 1
    /\ idx > 1
    /\ resume = shots[idx].id

\* C17: the step that follows the saving of a shot with a later shot in the
\* list sleeps DELAY_BETWEEN_SHOTS_SECONDS and submits nothing, so that the
\* sleep lies before the first request of the next generated shot; inside the
\* retry loop a step sleeps nothing or one backoff, and when a request is
\* submitted no pacing sleep has happened since the shot's iteration began.
C17_Pacing ==
    [][/\ (pc = "after" /\ success /\ idx < Len(shots))
            => /\ sleeps' = Append(sleeps, DELAY_BETWEEN_SHOTS_SECONDS)
               /\ pc' = "loop"
               /\ idx' = idx + 1
               /\ reqs' = reqs
       /\ pc \in {"attempt", "polling", "saved"}
            => \/ sleeps' = sleeps
               \/ \E n \in 1 .. MAX_RETRIES :
                     sleeps' = Append(sleeps, n * RETRY_BACKOFF_SECONDS)
       /\ reqs' = reqs + 1
            => \A i \in 1 .. Len(sleeps') :
                  sleeps'[i] # DELAY_BETWEEN_SHOTS_SECONDS]_vars

\* A shot saved by its second attempt was followed by the backoff of its
\* first attempt, then the pacing sleep; the next shot is still to generate.
C17_Witness ==
    /\ pc = "loop"
    /\ idx > 1
    /\ idx <= Len(shots)
    /\ sleeps = <<RETRY_BACKOFF_SECONDS, DELAY_BETWEEN_SHOTS_SECONDS>>
    /\ disk[shots[idx].id] = NoFile
    /\ disk[shots[idx - 1].id].origin = "gen"

\* start_shot <= p <= end_shot, end_shot unbounded when None.
WithinRange(p) == p >= start_shot /\ (end_shot = None \/ p <= end_shot)

\* C18: every path a run tests for existence, every file it writes or
\* deletes and every shot it requests lies in the range start_shot..end_shot;
\* the files of shots below start_shot never change.
C18_ShotRange ==
    [][/\ \A p \in checked' : WithinRange(p)
       /\ \A p \in Paths : disk'[p] # disk[p] => WithinRange(p)
       /\ reqs' = reqs + 1 => WithinRange(shots[idx].id)
       /\ \A p \in Paths : p < start_shot => disk'[p] = disk[p]]_vars

\* C18, amended: every file a run writes or deletes and every shot it
\* requests lies in the range, and the files of shots below start_shot never
\* change; the paths it tests for existence are those of shots in the range
\* and, for a shot of the range that asks video_generator.py for an image
\* anchor, the path id - 1 of that shot, in the range or not.
C18_ShotRangeButPredecessor ==
    [][/\ \A p \in checked' :
            \/ WithinRange(p)
            \/ \E i \in 1 .. Len(shots') :
                  WantsAnchor(shots'[i]) /\ p = shots'[i].id - 1
       /\ script = "naive" => \A p \in checked' : WithinRange(p)
       /\ \A p \in Paths : disk'[p] # disk[p] => WithinRange(p)
       /\ reqs' = reqs + 1 => WithinRange(shots[idx].id)
       /\ \A p \in Paths : p < start_shot => disk'[p] = disk[p]]_vars

\* A run from start_shot on ended: the shot below the range that has no file
\* was not generated, and the first shot of the range was anchored on the
\* clip just below the range.
C18_Witness ==
    /\ pc = "done"
    /\ start_shot >= 3
    /\ disk[start_shot - 2] = NoFile
    /\ disk[start_shot].origin = "gen"
    /\ start_shot - 1 \in checked
    /\ req.image.from = start_shot - 1

\* C19: a request is only submitted when no operation submitted before it is
\* still running: there is none yet, or the last one reported done or was
\* never accepted.
C19_OneOutstanding ==
    [][reqs' = reqs + 1 => op \in {"none", "done"}]_vars

\* C20: in extend.py, once all MAX_RETRIES attempts of a shot have failed,
\* whatever the kinds of failure, the chain has stopped or stops with its next
\* step: the loop does not move to a later shot and no request follows.
C20_ExtendChainHalt ==
    [][(script = "extend" /\ Len(Failures(log)) = MAX_RETRIES)
         => /\ pc' = "stopped"
            /\ idx' = idx
            /\ reqs' = reqs
            /\ req' = req]_vars

\* C21: in extend.py every request of the first shot of the list is a
\* generation from scratch, and every request of a later shot, retries
\* included, extends the video object of the shot just before it in the list,
\* whose clip is on disk with at least MIN_VALID_BYTES bytes.
C21_ExtendsValidatedPrevious ==
    (script = "extend" /\ pc \in {"attempt", "polling", "saved", "after", "stopped"}
     /\ reqs > 0)
        => /\ idx = 1 => req.shape = "first" /\ req.video = NoVideo
           /\ idx > 1
                => /\ req.shape = "extend"
                   /\ req.video.of = shots[idx - 1].id
                   /\ disk[shots[idx - 1].id].origin = "gen"
                   /\ disk[shots[idx - 1].id].size >= MIN_VALID_BYTES

\* C22: whenever video_generator.py has submitted a request for the shot the
\* loop is at, every shot before it in the list has its file on disk, and the
\* path id - 1 of the shot was tested for existence in this iteration of the
\* loop, that is after the shot before it was finished.
C22_NoSpeculation ==
    (script = "video_generator" /\ InShot /\ reqs > 0)
        => /\ \A i \in 1 .. idx - 1 : disk[shots[i].id] # NoFile
           /\ shots[idx].id - 1 \in checked

\* C22, amended: whenever video_generator.py has submitted a request for the
\* shot the loop is at, every shot before it in the list has its file on
\* disk; for a shot that asks for an image anchor the path id - 1 was tested
\* for existence in this iteration, and an image request means the file is
\* there; for any other shot path id - 1 is not looked at and the request is
\* of the text shape.
C22_NoSpeculationWhereAnchored ==
    (script = "video_generator" /\ InShot /\ reqs > 0)
        => /\ \A i \in 1 .. idx - 1 : disk[shots[i].id] # NoFile
           /\ shots[idx].id \in checked
           /\ WantsAnchor(shots[idx])
                => /\ shots[idx].id - 1 \in checked
                   /\ req.shape = "i2v" => disk[shots[idx].id - 1] # NoFile
           /\ ~WantsAnchor(shots[idx])
                => /\ checked = {shots[idx].id}
                   /\ req.shape = "t2v"

\* The third shot of the list is requested with an image after the first was
\* skipped and the second was generated in this run.
C22_Witness ==
    /\ script = "video_generator"
    /\ pc = "polling"
    /\ idx = 3
    /\ req.shape = "i2v"
    /\ disk[shots[1].id].origin = "pre"
    /\ disk[shots[2].id].origin = "gen"
    /\ shots[3].id - 1 \in checked

\* C23: an attempt that fails because the finished operation has no response
\* or no video writes nothing, is the one failure of its request, and is
\* followed by the fixed backoff and a retry while attempts remain, by no
\* sleep after the last attempt, and never by the attempt-scaled backoff.
C23_EmptyResponse ==
    [][(AttemptFailed /\ lastErr'.kind = "empty")
         => /\ disk' = disk
            /\ reqs' = reqs
            /\ Len(Failures(log')) = reqs
            /\ log' = Append(log, "error")
            /\ sleeps' = sleeps \o (IF attempt < MAX_RETRIES
                                    THEN <<RETRY_BACKOFF_SECONDS>> ELSE <<>>)
            /\ attempt < MAX_RETRIES => pc' = "attempt" /\ attempt' = attempt + 1]_vars

Used == MAX_RETRIES * (idx - 1) + (IF InShot THEN reqs ELSE 0)

\* C25: with every operation eventually reported done, a run that started
\* reaches "Done." or the halt; and within a run the bound Used never
\* decreases, grows with every request submitted and never exceeds
\* MAX_RETRIES times the number of shots in the range, so that a run submits
\* at most that many requests.
C25_Termination ==
    /\ (pc \in {"idle", "loop", "attempt", "polling", "saved", "after"})
          ~> (pc \in {"done", "halted"})
    /\ [][pc \notin {"idle", "done"}
            => /\ Used' >= Used
               /\ reqs' = reqs + 1 => Used' = Used + 1
               /\ Used' <= MAX_RETRIES * Len(shots')
               /\ Len(shots') = Len(shots)]_vars

\* A run halted at its last shot with every shot before it generated and
\* the last shot's MAX_RETRIES requests all made.
C25_Witness ==
    /\ script = "video_generator"
    /\ pc = "halted"
    /\ Len(shots) >= 2
    /\ idx = Len(shots)
    /\ reqs = MAX_RETRIES
    /\ \A i \in 1 .. idx - 1 : disk[shots[i].id].origin = "gen"

\* C26: a step that changes a file of the directory is a save or a deletion
\* inside the retry loop of the shot the loop is at, and the file is that
\* shot's own; the halt changes nothing; and when a run has halted, the clip
\* of every shot before the failed one is still there, with at least
\* MIN_VALID_BYTES bytes if this run wrote it.
C26_SingleWriter ==
    [][/\ \A p \in Paths :
            disk'[p] # disk[p]
                => /\ pc \in {"polling", "saved"}
                   /\ p = shots[idx].id
                   /\ \A q \in Paths \ {p} : disk'[q] = disk[q]
       /\ pc' = "halted"
            => /\ disk' = disk
               /\ \A i \in 1 .. idx' - 1 :
                     /\ disk'[shots'[i].id] # NoFile
                     /\ disk'[shots'[i].id].origin = "gen"
                            => disk'[shots'[i].id].size >= MIN_VALID_BYTES]_vars

\* A run halted at its third shot after an undersized download was deleted;
\* the clip found for the first shot and the one written for the second are
\* in place.
C26_Witness ==
    /\ pc = "halted"
    /\ idx = 3
    /\ lastErr.kind = "invalid"
    /\ disk[shots[1].id].origin = "pre"
    /\ disk[shots[2].id] = File(MIN_VALID_BYTES, "gen")
    /\ disk[shots[3].id] = NoFile

\* C27: when the pipeline is run again after the process was killed at any
\* point, a shot is passed over as done only if the clip under its name has
\* at least MIN_VALID_BYTES bytes.
C27_SafeResume ==
    (prev = "killed" /\ ENABLED Skip)
        => disk[OutPath(shot_id)].size >= MIN_VALID_BYTES

\* C28: every request for the shot with the smallest id of the story has the
\* text-anchored shape.
C28_FirstShotTextAnchored ==
    (InShot /\ reqs > 0 /\ \A i \in 1 .. Len(story) : story[i].id >= shots[idx].id)
        => req.shape = "t2v" /\ req.image = NoFrame

\* C29: the list the loop works through is the selection of the story as it
\* was loaded; a downgraded shot keeps the mode the story gave it and only its
\* effective mode is text-anchored; and the shot that follows a shot
\* downgraded in this run for want of its predecessor, asks for an image
\* anchor itself and has its frame extracted, is image-anchored on the clip
\* the downgraded shot just produced.
C29_DowngradeIsLocal ==
    /\ pc # "idle" => shots = SelectShots(story, start_shot, end_shot)
    /\ (InShot /\ Head(log) \in {"no_previous_fallback", "extraction_failed_fallback"})
            => /\ shot_mode = "t2v"
               /\ DeclaredMode(script, shots[idx]) = "i2v"
               /\ \E i \in 1 .. Len(story) : story[i] = shots[idx]
    /\ (/\ InShot
        /\ idx > 1
        /\ WantsAnchor(shots[idx])
        /\ WantsAnchor(shots[idx - 1])
        /\ shots[idx - 1].id = shots[idx].id - 1
        /\ disk[shots[idx - 1].id - 1] = NoFile
        /\ disk[shots[idx - 1].id].origin = "gen"
        /\ Head(log) = "generating")
            => /\ shot_mode = "i2v"
               /\ start_frame = [from |-> shots[idx - 1].id,
                                 file |-> File(MIN_VALID_BYTES, "gen")]
               /\ reqs > 0 => req.shape = "i2v" /\ req.image = start_frame

\* Shots 2 and 3 both ask for an anchor and clip 1 is missing: shot 2 was
\* downgraded and saved, and shot 3 was saved from a request carrying the last
\* frame of the new clip 2.
C29_Witness ==
    /\ pc = "after"
    /\ success
    /\ idx = 2
    /\ shots[1].id = 2 /\ WantsAnchor(shots[1])
    /\ shots[2].id = 3 /\ shots[2].mode = "i2v"
    /\ disk[1] = NoFile
    /\ disk[2].origin = "gen"
    /\ req.shape = "i2v"
    /\ req.image.from = 2

\* C30: after a chain halt the failed shot has no clip. In a run started after
\* a halt, whatever its --start_shot, as long as no request has been made the
\* loop has slept nothing, every shot it passed over has its clip, and at the
\* head of the loop it is in the state in which a run started at the shot at
\* hand begins: the same shots left to do, a full retry budget, no mode, frame
\* or prompt held. The first request is for the first shot of the range
\* without a clip, and the mode and the anchor of a shot's requests are those
\* its declaration and the directory give, whatever the range started at.
C30_ResumeEquivalence ==
    /\ pc = "halted" => resume = shots[idx].id /\ disk[resume] = NoFile
    /\ (prev = "halted" /\ req = NoReq /\ pc \in {"loop", "attempt"})
            => /\ sleeps = <<>>
               /\ reqs = 0
               /\ attempt = 1
               /\ ~success
               /\ op = "none"
               /\ exit_code = 0
               /\ \A i \in 1 .. idx - 1 : disk[shots[i].id] # NoFile
               /\ (pc = "loop" /\ idx <= Len(shots))
                    => /\ SubSeq(shots, idx, Len(shots))
                            = SelectShots(story, shots[idx].id, end_shot)
                       /\ shotLocals = <<"t2v", NoFrame, <<>>>>
               /\ pc = "attempt" => disk[shots[idx].id] = NoFile
    /\ (prev = "halted" /\ InShot)
            => LET id == shots[idx].id
                   there == disk[id - 1] # NoFile
                   ok == Head(log) # "extraction_failed_fallback"
               IN  /\ shot_mode = EffectiveMode(DeclaredMode(script, shots[idx]),
                                                there, ok)
                   /\ start_frame = IF shot_mode = "i2v"
                                    THEN [from |-> id - 1, file |-> disk[id - 1]]
                                    ELSE NoFrame
                   /\ reqs > 0 => req.shape = shot_mode /\ req.image = start_frame

\* A run started with the default --start_shot after a halt passed over the
\* clip of shot 1 and made its first request for shot 2, image-anchored on
\* clip 1, with no sleep before it.
C30_Witness ==
    /\ prev = "halted"
    /\ start_shot = 1
    /\ Len(shots) >= 2
    /\ idx = 2
    /\ shots[1].id = 1
    /\ shots[2].id = 2
    /\ disk[1].origin = "gen"
    /\ pc = "polling"
    /\ reqs = 1
    /\ sleeps = <<>>
    /\ req.shape = "i2v"
    /\ req.image.from = 1

\* C31: the mode, the frame and the prompt of a shot are set by the one step
\* that leaves the head of the loop, with no request made and the first
\* attempt ahead; no later step of the shot's iteration changes them or looks
\* at the directory for another path; every request carries the mode, the
\* frame and the prompt held, so a retry repeats the request before it.
C31_ResolvedOncePerShot ==
    [][/\ (pc = "loop" /\ pc' = "attempt")
            => reqs' = 0 /\ attempt' = 1 /\ req' = req
       /\ (pc \in {"attempt", "polling", "saved", "after"} /\ idx' = idx)
            => shotLocals' = shotLocals /\ checked' = checked
       /\ reqs' = reqs + 1
            => /\ pc = "attempt"
               /\ req'.shape = shot_mode
               /\ req'.image = start_frame
               /\ req'.prompt = prompt
               /\ reqs > 0 => req' = req]_vars

\* The third request of an image-anchored shot, after two failed attempts, is
\* of the image shape with the frame extracted before the first attempt.
C31_Witness ==
    /\ pc = "polling"
    /\ attempt = 3
    /\ reqs = 3
    /\ Len(Failures(log)) = 2
    /\ shot_mode = "i2v"
    /\ req.shape = "i2v"
    /\ req.image = start_frame
    /\ start_frame # NoFrame

\* The pacing sleeps among the sleeps of the shot at hand.
PacingIn(s) == SelectSeq(s, LAMBDA x : x = DELAY_BETWEEN_SHOTS_SECONDS)

\* C32: the step that leaves a shot this run generated adds one pacing sleep
\* when the shot is not the last of the list, whether or not a later shot is
\* still to generate, and none when it is the last; passing over an existing
\* clip, halting and ending the run sleep nothing; no other step adds a
\* pacing sleep.
C32_PacingOncePerGenerated ==
    [][/\ (pc = "after" /\ pc' = "loop")
            => /\ success
               /\ disk[shots[idx].id].origin = "gen"
               /\ sleeps' = sleeps \o
                     (IF shots[idx].id # shots[Len(shots)].id
                      THEN <<DELAY_BETWEEN_SHOTS_SECONDS>> ELSE <<>>)
               /\ PacingIn(sleeps) = <<>>
       /\ (pc = "loop" /\ pc' = "loop") => sleeps' = <<>>
       /\ pc' \in {"halted", "done"} => PacingIn(sleeps') = PacingIn(sleeps)
       /\ pc' = "halted" => PacingIn(sleeps') = <<>>
       /\ Len(PacingIn(sleeps')) > Len(PacingIn(sleeps))
            => pc = "after" /\ pc' = "loop" /\ idx < Len(shots)]_vars

\* The first shot was generated and the pacing sleep followed, although the
\* clips of all the shots after it were already there.
C32_Witness ==
    /\ pc = "loop"
    /\ idx = 2
    /\ Len(shots) = 3
    /\ sleeps = <<DELAY_BETWEEN_SHOTS_SECONDS>>
    /\ disk[shots[1].id].origin = "gen"
    /\ disk[shots[2].id].origin = "pre"
    /\ disk[shots[3].id].origin = "pre"

\* C33: a step in which an attempt fails appends the rate-limit or the error
\* notice to the log, and only such a step sleeps a backoff; a request of
\* attempt n is made with n - 1 failure notices in the log; the step that
\* downgrades a shot puts the fallback notice at the head of the log before
\* any request; the halt appends the FAILED notice after the notice of the
\* last failure.
C33_NoSilentFailure ==
    [][/\ (pc \in {"attempt", "polling", "saved"} /\ pc' \in {"attempt", "after"}
           /\ ~success')
            => /\ lastErr' # NoErr
               /\ \/ log' = Append(log, "rate_limited")
                  \/ log' = Append(log, "error")
       /\ (pc \in {"attempt", "polling", "saved"} /\ sleeps' # sleeps)
            => Len(Failures(log')) = Len(Failures(log)) + 1
       /\ reqs' = reqs + 1 => Len(Failures(log)) = attempt - 1
       /\ (pc = "loop" /\ pc' = "attempt" /\ WantsAnchor(shots[idx])
           /\ shot_mode' = "t2v")
            => /\ Head(log') \in {"no_previous_fallback", "extraction_failed_fallback"}
               /\ log'[2] = "generating"
               /\ reqs' = 0
       /\ pc' = "halted"
            => /\ log' = Append(log, "FAILED")
               /\ IsFailure(log[Len(log)])]_vars

\* A downgraded shot failed three times, one of them rate-limited, and the
\* run halted: the log holds the fallback notice, the three failure notices
\* and the FAILED notice.
C33_Witness ==
    /\ pc = "halted"
    /\ Len(log) = 6
    /\ log[1] = "extraction_failed_fallback"
    /\ log[2] = "generating"
    /\ Len(Failures(log)) = 3
    /\ \E i \in 3 .. 5 : log[i] = "rate_limited"
    /\ log[6] = "FAILED"

\* C34: a call of extract_last_frame that got a duration from ffprobe asks
\* ffmpeg for the frame at max(0, duration - offset), a timestamp from 0 to
\* the duration, which is 0 when the duration is not above the offset; and on
\* a clip no longer than the offset the call can return a frame, taken at 0.
C34_ContinuityTimestamp ==
    /\ (frame_result # "none" /\ duration # None /\ timestamp # None)
            => /\ timestamp >= 0
               /\ timestamp <= duration
               /\ timestamp >= duration - offset_from_end
               /\ timestamp > 0 => timestamp = duration - offset_from_end
               /\ duration <= offset_from_end => timestamp = 0
    /\ frame_result = "frame" => duration # None /\ timestamp # None
    /\ (frame_result = "none" /\ duration # None /\ duration <= offset_from_end)
            => ENABLED (ExtractLastFrame /\ frame_result' = "frame" /\ timestamp' = 0)

\* A clip of half a second, shorter than the default offset, gave a frame
\* taken at timestamp 0.
C34_Witness ==
    /\ frame_result = "frame"
    /\ offset_from_end = FRAME_OFFSET_SECONDS
    /\ duration = 5
    /\ timestamp = 0

\* The state of the loop on a shot resolved as mode m: for "t2v" no look at
\* the previous clip, no frame and no notice; for "i2v" the previous path
\* tested, and the mode kept with the frame of that clip, or dropped under
\* the notice of the missing clip or of the failed extraction.
ResolvedAs(m) ==
    LET id == shots[idx].id
    IN  IF m = "t2v"
        THEN /\ shot_mode = "t2v"
             /\ start_frame = NoFrame
             /\ Head(log) = "generating"
             /\ (pc # "halted" => checked = {id})
        ELSE /\ (pc # "halted" => checked = {id, id - 1})
             /\ IF disk[id - 1] = NoFile
                THEN /\ Head(log) = "no_previous_fallback"
                     /\ shot_mode = "t2v"
                     /\ start_frame = NoFrame
                ELSE \/ /\ Head(log) = "extraction_failed_fallback"
                        /\ shot_mode = "t2v"
                        /\ start_frame = NoFrame
                     \/ /\ Head(log) = "generating"
                        /\ shot_mode = "i2v"
                        /\ start_frame = [from |-> id - 1, file |-> disk[id - 1]]

\* C35: in video_generator.py a shot with no mode key is in the state of a
\* shot resolved as "t2v" when its id is 1 and as "i2v" otherwise, and a shot
\* with a mode key is in the state of a shot resolved as that mode.
C35_MissingModeDefault ==
    (script = "video_generator" /\ InShot)
        => /\ shots[idx].mode = "none"
                => ResolvedAs(IF shots[idx].id = 1 THEN "t2v" ELSE "i2v")
           /\ shots[idx].mode # "none" => ResolvedAs(shots[idx].mode)

\* A shot 2 with no mode key, its previous clip missing, was downgraded and
\* saved from a text-anchored request.
C35_Witness ==
    /\ script = "video_generator"
    /\ pc = "after"
    /\ success
    /\ shots[idx] = [id |-> 2, mode |-> "none"]
    /\ disk[1] = NoFile
    /\ Head(log) = "no_previous_fallback"
    /\ req.shape = "t2v"

====
